---- MODULE Spec2Model ----
(***************************************************************************)
(* Model of src/src/evaluation.py (OMRChecker): the range parser, the      *)
(* per-section marking scheme with its streak counters, EvaluationConfig    *)
(* with validate_all, and evaluate_concatenated_response.                   *)
(*                                                                         *)
(* Strings that the code takes apart (question tokens and question ids)    *)
(* are sequences of one-character strings.  Marks are integers counting    *)
(* quarters (0.25), a set of floats on which float addition is exact.      *)
(***************************************************************************)
EXTENDS Integers, Sequences, FiniteSets, TLC

\* ------------------------------------------------------------------ bounds
MaxTokenLen == 6
MaxTokens == 2
MaxOps == 2

\* ------------------------------------------------------- characters, text
DigitChars == <<"0", "1", "2", "3", "4", "5", "6", "7", "8", "9">>

IsDigit(c) == \E k \in 1..10 : DigitChars[k] = c

CharClass(c) == IF c = "." THEN "dot" ELSE IF IsDigit(c) THEN "digit" ELSE "other"

DigitValue(c) == (CHOOSE k \in 1..10 : DigitChars[k] = c) - 1

\* int(text) of a non-empty run of decimal digits
RECURSIVE IntOf(_)
IntOf(ds) ==
    IF Len(ds) = 0 THEN 0
    ELSE 10 * IntOf(SubSeq(ds, 1, Len(ds) - 1)) + DigitValue(ds[Len(ds)])

\* the decimal text of a natural number, as an f-string renders it
RECURSIVE StrOf(_)
StrOf(n) ==
    IF n < 10 THEN <<DigitChars[n + 1]>>
    ELSE StrOf(n \div 10) \o <<DigitChars[(n % 10) + 1]>>

\* length of the maximal run of characters of class cls starting at s[i]
RECURSIVE RunLen(_, _, _)
RunLen(s, i, cls) ==
    IF i > Len(s) \/ CharClass(s[i]) # cls THEN 0
    ELSE 1 + RunLen(s, i + 1, cls)

\* ----------------------------------------------------------- range parser
\* A match of ([^\.\d]+)(\d+)\.{2,3}(\d+) that starts at position i.  The
\* three character classes are disjoint, so each greedy group takes its whole
\* run and backtracking to a shorter group can never succeed.
RangeMatchAt(s, i) ==
    LET p  == RunLen(s, i, "other")
        d1 == RunLen(s, i + p, "digit")
        dt == RunLen(s, i + p + d1, "dot")
        d2 == RunLen(s, i + p + d1 + dt, "digit")
    IN  [ok     |-> p >= 1 /\ d1 >= 1 /\ dt \in {2, 3} /\ d2 >= 1,
         prefix |-> SubSeq(s, i, i + p - 1),
         start  |-> SubSeq(s, i + p, i + p + d1 - 1),
         end    |-> SubSeq(s, i + p + d1 + dt, i + p + d1 + dt + d2 - 1)]

\* re.findall(...): the positions at which a match starts
RangeMatchStarts(s) == {i \in 1..Len(s) : RangeMatchAt(s, i).ok}

SetMin(S) == CHOOSE x \in S : \A y \in S : x <= y

RECURSIVE RangeIds(_, _, _)
RangeIds(prefix, n, end) ==
    IF n > end THEN <<>>
    ELSE <<prefix \o StrOf(n)>> \o RangeIds(prefix, n + 1, end)

Parsed(error, ids) == [error |-> error, ids |-> ids]

\* range_questions with range(start, end) in place of range(start, end + 1)
range_questions_exclusive(question_prefix, start, end) ==
    IF start >= end
    THEN Parsed("InvalidRange", <<>>)
    ELSE Parsed("none", RangeIds(question_prefix, start, end - 1))

\* evaluation.py:76-83, with start and end already int(...)
range_questions(question_prefix, start, end) ==
    IF start >= end
    THEN Parsed("InvalidRange", <<>>)
    ELSE Parsed("none", RangeIds(question_prefix, start, end))

\* evaluation.py:72-75: the three groups of the match m, start and end as int
matched_range(m) == range_questions(m.prefix, IntOf(m.start), IntOf(m.end))

\* evaluation.py:72-75: findall(...)[0], given where the matches start
first_range_match(question_string, starts) ==
    IF starts = {}
    THEN Parsed("IndexError", <<>>)
    ELSE matched_range(RangeMatchAt(question_string, SetMin(starts)))

parse_question_string(question_string) ==
    IF \E k \in 1..Len(question_string) : question_string[k] = "."
    THEN first_range_match(question_string, RangeMatchStarts(question_string))
    ELSE Parsed("none", <<question_string>>)

SeqSet(s) == {s[k] : k \in 1..Len(s)}

\* the loop of parse_questions from token i on; questions_set is the set the
\* code tests each token against, and the code never adds to it
RECURSIVE parse_questions_loop(_, _, _, _)

\* one pass of the loop (evaluation.py:92-100), given the token's expansion
parse_questions_step(questions, i, parsed_questions, questions_set, questions_array) ==
    IF questions_array.error # "none"
    THEN Parsed(questions_array.error, <<>>)
    ELSE IF questions_set \cap SeqSet(questions_array.ids) # {}
    THEN Parsed("QuestionOverlap", <<>>)
    ELSE parse_questions_loop(questions, i + 1,
                              parsed_questions \o questions_array.ids,
                              questions_set)

parse_questions_loop(questions, i, parsed_questions, questions_set) ==
    IF i > Len(questions) THEN Parsed("none", parsed_questions)
    ELSE parse_questions_step(questions, i, parsed_questions, questions_set,
                              parse_question_string(questions[i]))

parse_questions(key, questions) == parse_questions_loop(questions, 1, <<>>, {})

\* ------------------------------------------------------ schema constants
\* src/schemas/evaluation_schema.py (imported at evaluation.py:10-14)
DEFAULT_SECTION_KEY == <<"D", "E", "F", "A", "U", "L", "T">>
BONUS_SECTION_PREFIX == <<"B", "O", "N", "U", "S">>
MARKING_VERDICT_TYPES == <<"correct", "incorrect", "unmarked">>

\* str.startswith
StartsWith(s, prefix) ==
    Len(s) >= Len(prefix) /\ SubSeq(s, 1, Len(prefix)) = prefix

\* --------------------------------------------------------- marking values
\* A literal of the evaluation json.  form "number" is a json number, form
\* "decimal" a string holding a decimal, form "fraction" a string "num/den",
\* all of value num/den; form "list" is a json array of such literals.
Lit(form, num, den, items) ==
    [form |-> form, num |-> num, den |-> den, items |-> items]

\* A parsed marking value.  kind "num" is a python number of val quarters,
\* kind "map" the lazy map object that map(parse_float_or_fraction, items)
\* returns, kind "list" a python list of numbers.
Val(kind, val, items) == [kind |-> kind, val |-> val, items |-> items]

\* the float of the rational num/den, counted in quarters
FloatOf(num, den) == (4 * num) \div den

parse_float_or_fraction(result) ==
    IF result.form = "fraction"
    THEN FloatOf(result.num, result.den)      \* float(Fraction(result))
    ELSE FloatOf(result.num, result.den)      \* float(result)

\* one pass of the loop of parse_scheme_marking: the parsed value of a verdict
marking_result(literal) ==
    IF literal.form \in {"decimal", "fraction"}
    THEN Val("num", parse_float_or_fraction(literal), <<>>)
    ELSE IF literal.form = "list"
    THEN Val("map", 0, literal.items)
    ELSE Val("num", FloatOf(literal.num, literal.den), <<>>)

\* the warning of parse_scheme_marking for one verdict, if it is logged
marking_warns(section_key, verdict_type, literal) ==
    /\ literal.form \in {"decimal", "fraction"}
    /\ parse_float_or_fraction(literal) > 0
    /\ verdict_type = "incorrect"
    /\ ~StartsWith(section_key, BONUS_SECTION_PREFIX)

parse_scheme_marking(section_key, marking) ==
    [parsed_marking |->
        [v \in {MARKING_VERDICT_TYPES[k] : k \in 1..Len(MARKING_VERDICT_TYPES)}
            |-> marking_result(marking[v])],
     warnings |->
        SelectSeq([k \in 1..Len(MARKING_VERDICT_TYPES) |->
                      [section_key |-> section_key,
                       verdict |-> MARKING_VERDICT_TYPES[k],
                       warns |-> marking_warns(section_key,
                                               MARKING_VERDICT_TYPES[k],
                                               marking[MARKING_VERDICT_TYPES[k]])]],
                  LAMBDA w : w.warns)]

\* ------------------------------------------------- SectionMarkingScheme
NoStreaks == [correct |-> 0, incorrect |-> 0, unmarked |-> 0]

\* SectionMarkingScheme.__init__: error is the exception it ends in, if any.
\* The default section's questions (None in the code) are held as <<>>.
section_fields(section_key, empty_val, questions, marking) ==
    [error |-> questions.error,
     warnings |-> IF questions.error = "none" THEN marking.warnings ELSE <<>>,
     section |-> [section_key |-> section_key,
                  empty_val |-> empty_val,
                  questions |-> questions.ids,
                  marking |-> marking.parsed_marking,
                  streaks |-> NoStreaks]]

SectionMarkingScheme(section_key, section_scheme, empty_val) ==
    section_fields(section_key, empty_val,
                   IF section_key = DEFAULT_SECTION_KEY
                   THEN Parsed("none", <<>>)
                   ELSE parse_questions(section_key, section_scheme.questions),
                   parse_scheme_marking(section_key, section_scheme.marking))

\* get_question_verdict with the two tests in the other order
get_question_verdict_equal_first(section, marked_answer, correct_answer) ==
    IF marked_answer = correct_answer THEN "correct"
    ELSE IF marked_answer = section.empty_val THEN "unmarked"
    ELSE "incorrect"

\* get_question_verdict with the empty value tested on the correct answer
get_question_verdict_on_key(section, marked_answer, correct_answer) ==
    IF correct_answer = section.empty_val THEN "unmarked"
    ELSE IF marked_answer = correct_answer THEN "correct"
    ELSE "incorrect"

get_question_verdict(section, marked_answer, correct_answer) ==
    IF marked_answer = section.empty_val THEN "unmarked"
    ELSE IF marked_answer = correct_answer THEN "correct"
    ELSE "incorrect"

\* update_streaks_for_verdict that starts every streak anew
update_streaks_restarting(streaks, question_verdict) ==
    [verdict_type \in DOMAIN streaks |->
        IF question_verdict = verdict_type THEN 1 ELSE 0]

\* update_streaks_for_verdict without the reset of the other streaks
update_streaks_keeping_others(streaks, question_verdict) ==
    [streaks EXCEPT ![question_verdict] = streaks[question_verdict] + 1]

update_streaks_for_verdict(streaks, question_verdict) ==
    LET current_streak == streaks[question_verdict]
    IN  [verdict_type \in DOMAIN streaks |->
            IF question_verdict = verdict_type
            THEN current_streak + 1
            ELSE 0]

Min2(a, b) == IF a <= b THEN a ELSE b

\* match_verdict that gives a constant rule once per question of the streak
match_verdict_scaling(section, question_verdict, current_streak, marking) ==
    [delta   |-> IF marking.kind = "num"
                 THEN Val("num", marking.val * (current_streak + 1), <<>>)
                 ELSE marking,
     verdict |-> question_verdict,
     section |-> [section EXCEPT
                    !.streaks = update_streaks_for_verdict(section.streaks,
                                                           question_verdict)]]

\* match_verdict that takes the next entry off a schedule
match_verdict_consuming(section, question_verdict, current_streak, marking) ==
    [delta   |-> marking,
     verdict |-> question_verdict,
     section |-> [section EXCEPT
                    !.streaks = update_streaks_for_verdict(section.streaks,
                                                           question_verdict),
                    !.marking[question_verdict] =
                        IF marking.kind = "map" /\ marking.items # <<>>
                        THEN Val("map", 0, Tail(marking.items))
                        ELSE marking]]

\* match_answer: the returned (delta, verdict) and the section as it leaves it
\* evaluation.py:124-132, given the verdict of evaluation.py:123
match_verdict(section, question_verdict, current_streak, marking) ==
    [delta   |-> IF marking.kind = "list"
                 THEN Val("num",
                          marking.items[Min2(current_streak,
                                             Len(marking.items) - 1) + 1],
                          <<>>)
                 ELSE marking,
     verdict |-> question_verdict,
     section |-> [section EXCEPT
                    !.streaks = update_streaks_for_verdict(section.streaks,
                                                           question_verdict)]]

resolve_verdict(section, question_verdict) ==
    match_verdict(section, question_verdict, section.streaks[question_verdict],
                  section.marking[question_verdict])

match_answer(section, marked_answer, correct_answer) ==
    resolve_verdict(section,
                    get_question_verdict(section, marked_answer, correct_answer))

\* ------------------------------------------------------ EvaluationConfig
\* the loop of EvaluationConfig.__init__ over the marking_scheme items, from
\* item i on: the sections built so far, the warnings logged, the exception
RECURSIVE build_sections(_, _, _, _, _)

\* one pass of that loop (evaluation.py:162-166), given the section it built
build_sections_step(raw_scheme, i, empty_val, sections, warnings, built) ==
    IF built.error # "none"
    THEN [error |-> built.error, sections |-> sections, warnings |-> warnings]
    ELSE build_sections(raw_scheme, i + 1, empty_val,
                        Append(sections, built.section),
                        warnings \o built.warnings)

build_sections(raw_scheme, i, empty_val, sections, warnings) ==
    IF i > Len(raw_scheme)
    THEN [error |-> "none", sections |-> sections, warnings |-> warnings]
    ELSE build_sections_step(raw_scheme, i, empty_val, sections, warnings,
                             SectionMarkingScheme(raw_scheme[i].section_key,
                                                  raw_scheme[i], empty_val))

parse_questions_in_order(questions_in_order) ==
    parse_questions(<<"questions_in_order">>, questions_in_order)

\* EvaluationConfig.__init__ on an inline answer key (source_type not "csv")
config_fields(questions, built) ==
    IF questions.error # "none"
    THEN [error |-> questions.error, questions_in_order |-> <<>>,
          marking_scheme |-> <<>>, warnings |-> <<>>]
    ELSE [error |-> built.error,
          questions_in_order |-> questions.ids,
          marking_scheme |-> IF built.error = "none" THEN built.sections
                             ELSE <<>>,
          warnings |-> built.warnings]

EvaluationConfig(evaluation_json, empty_val) ==
    config_fields(parse_questions_in_order(evaluation_json.questions_in_order),
                  build_sections(evaluation_json.marking_scheme, 1, empty_val,
                                 <<>>, <<>>))

\* ---- sorted(): python orders strings by code point, character by character
CodeOrder ==
    <<".", "0", "1", "2", "3", "4", "5", "6", "7", "8", "9",
      "A", "B", "D", "E", "F", "L", "N", "O", "S", "T", "U", "_",
      "l", "o", "q", "r">>

CharCode(c) == CHOOSE k \in 1..Len(CodeOrder) : CodeOrder[k] = c

RECURSIVE StrLess(_, _)
StrLess(a, b) ==
    IF Len(b) = 0 THEN FALSE
    ELSE IF Len(a) = 0 THEN TRUE
    ELSE IF a[1] # b[1] THEN CharCode(a[1]) < CharCode(b[1])
    ELSE StrLess(Tail(a), Tail(b))

RECURSIVE sorted(_)
sorted(S) ==
    IF S = {} THEN <<>>
    ELSE LET least == CHOOSE x \in S : \A y \in S \ {x} : StrLess(x, y)
         IN  <<least>> \o sorted(S \ {least})

Failure(error, missing) == [error |-> error, missing |-> missing]

\* the loop of validate_all over the sections, from item i on: the key of the
\* first section that overlaps the ones before it, or the union of their ids
RECURSIVE section_questions_loop(_, _, _)
section_questions_loop(marking_scheme, i, section_questions) ==
    IF i > Len(marking_scheme)
    THEN [overlap |-> FALSE, section_questions |-> section_questions]
    ELSE IF marking_scheme[i].section_key = DEFAULT_SECTION_KEY
    THEN section_questions_loop(marking_scheme, i + 1, section_questions)
    ELSE LET current_set == SeqSet(marking_scheme[i].questions)
         IN  IF section_questions \cap current_set # {}
             THEN [overlap |-> TRUE, section_questions |-> section_questions]
             ELSE section_questions_loop(marking_scheme, i + 1,
                                         section_questions \cup current_set)

\* validate_all: the exception it raises ("none": it returns) and the ids it logs
\* validate_sets without the test for overlapping sections
validate_sets_allowing_overlap(unequal_lengths, overlap, section_questions, answer_key_questions, omr_response_questions) ==
    IF unequal_lengths
    THEN Failure("UnequalLengths", <<>>)
    ELSE IF answer_key_questions # section_questions
    THEN IF section_questions \subseteq answer_key_questions
         THEN Failure("MissingMarkingScheme",
                      sorted(answer_key_questions \ section_questions))
         ELSE Failure("MissingAnswerKey",
                      sorted(section_questions \ answer_key_questions))
    ELSE IF omr_response_questions \subseteq answer_key_questions
    THEN Failure("MissingOMRResponse",
                 sorted(answer_key_questions \ omr_response_questions))
    ELSE Failure("none", <<>>)

\* validate_sets with the response tested before the marking scheme
validate_sets_response_first(unequal_lengths, overlap, section_questions, answer_key_questions, omr_response_questions) ==
    IF unequal_lengths
    THEN Failure("UnequalLengths", <<>>)
    ELSE IF overlap
    THEN Failure("SectionOverlap", <<>>)
    ELSE IF omr_response_questions \subseteq answer_key_questions
    THEN Failure("MissingOMRResponse",
                 sorted(answer_key_questions \ omr_response_questions))
    ELSE IF answer_key_questions # section_questions
    THEN IF section_questions \subseteq answer_key_questions
         THEN Failure("MissingMarkingScheme",
                      sorted(answer_key_questions \ section_questions))
         ELSE Failure("MissingAnswerKey",
                      sorted(section_questions \ answer_key_questions))
    ELSE Failure("none", <<>>)

\* evaluation.py:173-219, given the outcome of the loop over the sections
validate_sets(unequal_lengths, overlap, section_questions, answer_key_questions, omr_response_questions) ==
    IF unequal_lengths
    THEN Failure("UnequalLengths", <<>>)
    ELSE IF overlap
    THEN Failure("SectionOverlap", <<>>)
    ELSE IF answer_key_questions # section_questions
    THEN IF section_questions \subseteq answer_key_questions
         THEN Failure("MissingMarkingScheme",
                      sorted(answer_key_questions \ section_questions))
         ELSE Failure("MissingAnswerKey",
                      sorted(section_questions \ answer_key_questions))
    ELSE IF omr_response_questions \subseteq answer_key_questions
    THEN Failure("MissingOMRResponse",
                 sorted(answer_key_questions \ omr_response_questions))
    ELSE Failure("none", <<>>)

validate_sections(unequal_lengths, sections, answer_key_questions, omr_response_questions) ==
    validate_sets(unequal_lengths, sections.overlap, sections.section_questions,
                  answer_key_questions, omr_response_questions)

validate_all(questions, answers, marking_scheme, omr_response) ==
    validate_sections(Len(questions) # Len(answers),
                      section_questions_loop(marking_scheme, 1, {}),
                      SeqSet(questions), DOMAIN omr_response)

\* str.title of a verdict
Title(verdict) ==
    CASE verdict = "correct" -> "Correct"
      [] verdict = "incorrect" -> "Incorrect"
      [] OTHER -> "Unmarked"

\* prepare_explanation_table: a new table, with its columns and no row
prepare_explanation_table == <<>>

\* what conditionally_add_explanation ends in: the exception, and the table
Explained(error, table) == [error |-> error, table |-> table]

\* conditionally_add_explanation with the score before the delta in the row
explanation_with_score_before(should_explain, table, correct_answer, delta, marked_answer, question_marking_scheme, question_verdict, question, score) ==
    IF ~should_explain
    THEN Explained("none", table)
    ELSE IF delta.kind # "num"
    THEN Explained("TypeError", table)
    ELSE Explained("none",
                   Append(table,
                          [Question |-> question,
                           Marked   |-> marked_answer,
                           Correct  |-> correct_answer,
                           Verdict  |-> Title(question_verdict),
                           Delta    |-> delta.val,
                           Score    |-> score,
                           Section  |-> question_marking_scheme.section_key,
                           Streak   |-> question_marking_scheme.streaks[question_verdict]]))

\* conditionally_add_explanation: the exception it raises and the table after
\* it.  A delta that is no number makes score + delta (evaluation.py:249) a
\* TypeError before add_row.  Delta and Score hold round(x, 2), which leaves
\* a number of quarters as it is.
conditionally_add_explanation(should_explain, table, correct_answer, delta, marked_answer, question_marking_scheme, question_verdict, question, score) ==
    IF ~should_explain
    THEN Explained("none", table)
    ELSE IF delta.kind # "num"
    THEN Explained("TypeError", table)
    ELSE Explained("none",
                   Append(table,
                          [Question |-> question,
                           Marked   |-> marked_answer,
                           Correct  |-> correct_answer,
                           Verdict  |-> Title(question_verdict),
                           Delta    |-> delta.val,
                           Score    |-> score + delta.val,
                           Section  |-> question_marking_scheme.section_key,
                           Streak   |-> question_marking_scheme.streaks[question_verdict]]))

\* ----------------------------------------- evaluate_concatenated_response
\* evaluation.py:272-278: the index in marking_scheme of the default section
\* (0: default_marking_scheme is never bound) and QUESTION_WISE_SCHEMES, the
\* last explicit section that lists the question (0: the question is no key)
DefaultIndex(marking_scheme) ==
    LET at == {i \in 1..Len(marking_scheme) :
                  marking_scheme[i].section_key = DEFAULT_SECTION_KEY}
    IN  IF at = {} THEN 0 ELSE CHOOSE i \in at : \A j \in at : j <= i

QUESTION_WISE_SCHEMES(marking_scheme, q) ==
    LET at == {i \in 1..Len(marking_scheme) :
                  /\ marking_scheme[i].section_key # DEFAULT_SECTION_KEY
                  /\ q \in SeqSet(marking_scheme[i].questions)}
    IN  IF at = {} THEN 0 ELSE CHOOSE i \in at : \A j \in at : j <= i

Outcome(error, score, marking_scheme, calls, table) ==
    [error |-> error, score |-> score, marking_scheme |-> marking_scheme,
     calls |-> calls, explanation_table |-> table]

\* the scoring loop (evaluation.py:280-298) from answer-key index i on
Call(at, question, marked_answer, correct_answer, matched) ==
    [section  |-> at,
     question |-> question,
     marked   |-> marked_answer,
     correct  |-> correct_answer,
     delta    |-> matched.delta,
     verdict  |-> matched.verdict]

\* the scoring loop (evaluation.py:280-298) from answer-key index i on
RECURSIVE scoring_loop(_, _, _, _, _, _, _)

\* add_delta with score = delta in place of score += delta
add_delta_overwriting(cfg, concatenated_response, i, score, marking_scheme, calls, matched, explained) ==
    IF explained.error # "none"
    THEN Outcome(explained.error, score, marking_scheme, calls, explained.table)
    ELSE IF matched.delta.kind # "num"
    THEN Outcome("TypeError", score, marking_scheme, calls, explained.table)
    ELSE scoring_loop(cfg, concatenated_response, i + 1, matched.delta.val,
                      marking_scheme, calls, explained.table)

\* evaluation.py:298, given what conditionally_add_explanation ended in: its
\* exception goes on to the caller, and a delta that is no number makes
\* score += delta a TypeError
add_delta(cfg, concatenated_response, i, score, marking_scheme, calls, matched, explained) ==
    IF explained.error # "none"
    THEN Outcome(explained.error, score, marking_scheme, calls, explained.table)
    ELSE IF matched.delta.kind # "num"
    THEN Outcome("TypeError", score, marking_scheme, calls, explained.table)
    ELSE scoring_loop(cfg, concatenated_response, i + 1, score + matched.delta.val,
                      marking_scheme, calls, explained.table)

\* score_question that starts the streaks of the other sections anew
score_question_resetting_others(cfg, concatenated_response, i, score, marking_scheme, calls, table, at, matched) ==
    add_delta(cfg, concatenated_response, i, score,
              [k \in DOMAIN marking_scheme |->
                  IF k = at THEN matched.section
                  ELSE [marking_scheme[k] EXCEPT !.streaks = NoStreaks]],
              Append(calls, Call(at, cfg.questions_in_order[i],
                                 concatenated_response[cfg.questions_in_order[i]],
                                 cfg.answers_in_order[i], matched)),
              matched,
              conditionally_add_explanation(
                  cfg.should_explain_scoring, table,
                  cfg.answers_in_order[i], matched.delta,
                  concatenated_response[cfg.questions_in_order[i]],
                  matched.section, matched.verdict,
                  cfg.questions_in_order[i], score))

\* evaluation.py:286-298, given what match_answer returned: the section as
\* match_answer left it, the call, the explanation row and the new score
score_question(cfg, concatenated_response, i, score, marking_scheme, calls, table, at, matched) ==
    add_delta(cfg, concatenated_response, i, score,
              [marking_scheme EXCEPT ![at] = matched.section],
              Append(calls, Call(at, cfg.questions_in_order[i],
                                 concatenated_response[cfg.questions_in_order[i]],
                                 cfg.answers_in_order[i], matched)),
              matched,
              conditionally_add_explanation(
                  cfg.should_explain_scoring, table,
                  cfg.answers_in_order[i], matched.delta,
                  concatenated_response[cfg.questions_in_order[i]],
                  matched.section, matched.verdict,
                  cfg.questions_in_order[i], score))

\* evaluation.py:281-288, given the indexes of the question's explicit section
\* and of the default section
lookup_question(cfg, concatenated_response, i, score, marking_scheme, calls, table, explicit, default) ==
    IF cfg.questions_in_order[i] \notin DOMAIN concatenated_response
    THEN Outcome("KeyError", score, marking_scheme, calls, table)
    ELSE IF default = 0
    THEN Outcome("UnboundLocalError", score, marking_scheme, calls, table)
    ELSE score_question(cfg, concatenated_response, i, score, marking_scheme,
                        calls, table,
                        IF explicit # 0 THEN explicit ELSE default,
                        match_answer(
                            marking_scheme[IF explicit # 0 THEN explicit
                                           ELSE default],
                            concatenated_response[cfg.questions_in_order[i]],
                            cfg.answers_in_order[i]))

scoring_loop(cfg, concatenated_response, i, score, marking_scheme, calls, table) ==
    IF i > Len(cfg.questions_in_order)
    THEN Outcome("none", score, marking_scheme, calls, table)
    ELSE lookup_question(cfg, concatenated_response, i, score, marking_scheme,
                         calls, table,
                         QUESTION_WISE_SCHEMES(marking_scheme,
                                               cfg.questions_in_order[i]),
                         DefaultIndex(marking_scheme))

\* scoring_after with a new explanation table for every pass
scoring_after_new_table(checked, concatenated_response, cfg) ==
    IF checked.error # "none"
    THEN Outcome(checked.error, 0, cfg.marking_scheme, <<>>,
                 cfg.explanation_table)
    ELSE scoring_loop(cfg, concatenated_response, 1, 0, cfg.marking_scheme,
                      <<>>, <<>>)

\* evaluation.py:267-302, given what validate_all raised
scoring_after(checked, concatenated_response, cfg) ==
    IF checked.error # "none"
    THEN Outcome(checked.error, 0, cfg.marking_scheme, <<>>,
                 cfg.explanation_table)
    ELSE scoring_loop(cfg, concatenated_response, 1, 0, cfg.marking_scheme,
                      <<>>, cfg.explanation_table)

evaluate_concatenated_response(concatenated_response, cfg) ==
    scoring_after(validate_all(cfg.questions_in_order, cfg.answers_in_order,
                               cfg.marking_scheme, concatenated_response),
                  concatenated_response, cfg)

\* ------------------------------------------------- parser inputs (bounded)
Alphabet == {"q", "0", "1", "."}

RECURSIVE TokensOfLen(_)
TokensOfLen(n) ==
    IF n = 0 THEN {<<>>}
    ELSE {Append(t, c) : t \in TokensOfLen(n - 1), c \in Alphabet}

AllTokens == UNION {TokensOfLen(n) : n \in 1..MaxTokenLen}

q1 == <<"q", "1">>
q2 == <<"q", "2">>
q3 == <<"q", "3">>
q1to2 == <<"q", "1", ".", ".", "2">>
q1to3 == <<"q", "1", ".", ".", ".", "3">>
q2to3 == <<"q", "2", ".", ".", "3">>
q2to1 == <<"q", "2", ".", ".", "1">>

ListTokens == {q1, q2, q3, q1to2, q1to3, q2to3, q2to1}

RECURSIVE ListsOfLen(_, _)
ListsOfLen(S, n) ==
    IF n = 0 THEN {<<>>}
    ELSE {Append(l, t) : l \in ListsOfLen(S, n - 1), t \in S}

TokenLists == UNION {ListsOfLen(ListTokens, n) : n \in 0..MaxTokens}

\* ------------------------------------------- evaluation inputs (bounded)
Num(num, den) == Lit("number", num, den, <<>>)
Dec(num, den) == Lit("decimal", num, den, <<>>)
Frac(num, den) == Lit("fraction", num, den, <<>>)
List(items) == Lit("list", 0, 1, items)

\* {correct: 1, incorrect: -0.25, unmarked: 0}
ConstMarking ==
    [correct |-> Num(1, 1), incorrect |-> Num(-1, 4), unmarked |-> Num(0, 1)]
\* {correct: "3/4", incorrect: "-1/2", unmarked: "0"}
StrMarking ==
    [correct |-> Frac(3, 4), incorrect |-> Frac(-1, 2), unmarked |-> Dec(0, 1)]
\* {correct: 1, incorrect: [0, -1, -2], unmarked: 0}
ScheduleMarking ==
    [correct |-> Num(1, 1),
     incorrect |-> List(<<Num(0, 1), Num(-1, 1), Num(-2, 1)>>),
     unmarked |-> Num(0, 1)]
\* {correct: "1", incorrect: "1/4", unmarked: 0}
PositiveStrMarking ==
    [correct |-> Dec(1, 1), incorrect |-> Frac(1, 4), unmarked |-> Num(0, 1)]
\* {correct: 1, incorrect: 0.5, unmarked: "-0.25"}
PositiveNumMarking ==
    [correct |-> Num(1, 1), incorrect |-> Num(1, 2), unmarked |-> Dec(-1, 4)]

S1 == <<"S", "1">>
S2 == <<"S", "2">>
BONUS1 == <<"B", "O", "N", "U", "S", "_", "1">>

Sec(section_key, questions, marking) ==
    [section_key |-> section_key, questions |-> questions, marking |-> marking]

Default(marking) == Sec(DEFAULT_SECTION_KEY, <<>>, marking)

\* schemes that cover q1 and q2, each once
CoveringSchemes ==
    { <<Sec(S1, <<q1to2>>, ConstMarking), Default(StrMarking)>>,
      <<Default(PositiveStrMarking), Sec(S1, <<q1to2>>, ScheduleMarking)>>,
      <<Sec(S1, <<q1>>, StrMarking), Sec(S2, <<q2>>, ScheduleMarking),
        Default(ConstMarking)>> }

RawSchemes ==
    CoveringSchemes \cup
    { <<Default(ConstMarking)>>,
      <<Sec(S1, <<q1to2>>, ConstMarking), Sec(S2, <<q2>>, ConstMarking),
        Default(ConstMarking)>>,
      <<Sec(S1, <<q1, q2>>, ConstMarking)>>,
      <<Sec(S1, <<q1>>, ConstMarking), Default(ConstMarking)>>,
      <<Sec(S1, <<q1to3>>, ConstMarking), Default(ConstMarking)>>,
      <<Sec(BONUS1, <<q2, q1>>, PositiveStrMarking), Default(PositiveNumMarking)>>,
      <<Sec(S1, <<q1to2>>, PositiveStrMarking), Default(ConstMarking)>>,
      <<Sec(S1, <<q2to1>>, ConstMarking), Default(PositiveStrMarking)>>,
      <<Sec(S1, <<q1>>, ConstMarking), Sec(S2, <<q1>>, ConstMarking),
        Default(ConstMarking)>> }

\* schemes that do not cover q1 and q2
PartialSchemes ==
    { <<Sec(S1, <<q1>>, ConstMarking), Default(ConstMarking)>>,
      <<Sec(S1, <<q1to3>>, ConstMarking), Default(ConstMarking)>> }

RawQuestionsInOrder == { <<q1to2>>, <<q2to1>> }

EmptyVal == ""

\* q1 and q3 in one section, q2 between them in another
InterleavedScheme ==
    <<Sec(S1, <<q1, q3>>, ConstMarking), Sec(S2, <<q2>>, StrMarking),
      Default(ConstMarking)>>

\* schemes for an answer key that names q1 twice
RepeatedKeySchemes ==
    { <<Default(ConstMarking)>>,
      <<Sec(S1, <<q1>>, ConstMarking), Default(ConstMarking)>>,
      <<Sec(S1, <<q1>>, StrMarking), Sec(S2, <<q2>>, ScheduleMarking),
        Default(ConstMarking)>> }

\* the answer key q1..2 and a key that is no range with every scheme; the key
\* in the other order with the schemes that score and with the default
\* section alone; a key that names a
\* question twice; the explanation table with the schemes that score;
\* answers one short of the questions, with schemes that cover the questions
\* and with schemes that do not; three questions in interleaved sections
RawEvaluations ==
    [should_explain_scoring : {FALSE},
     questions_in_order : RawQuestionsInOrder,
     answers_in_order : {<<"A", "B">>},
     marking_scheme : RawSchemes,
     empty_val : {EmptyVal}]
    \cup
    [should_explain_scoring : {FALSE},
     questions_in_order : {<<q2, q1>>},
     answers_in_order : {<<"A", "B">>},
     marking_scheme : CoveringSchemes \cup {<<Default(ConstMarking)>>},
     empty_val : {EmptyVal}]
    \cup
    [should_explain_scoring : {FALSE},
     questions_in_order : {<<q1, q1>>},
     answers_in_order : {<<"A", "B">>},
     marking_scheme : RepeatedKeySchemes,
     empty_val : {EmptyVal}]
    \cup
    [should_explain_scoring : {TRUE},
     questions_in_order : {<<q1to2>>, <<q2, q1>>},
     answers_in_order : {<<"A", "B">>},
     marking_scheme : CoveringSchemes,
     empty_val : {EmptyVal}]
    \cup
    [should_explain_scoring : {FALSE},
     questions_in_order : {<<q1to2>>},
     answers_in_order : {<<"A">>},
     marking_scheme : CoveringSchemes \cup PartialSchemes,
     empty_val : {EmptyVal}]
    \cup
    [should_explain_scoring : {FALSE},
     questions_in_order : {<<q1to3>>},
     answers_in_order : {<<"A", "B", "A">>},
     marking_scheme : {InterleavedScheme},
     empty_val : {EmptyVal}]

\* a response: a marked value for some of the answer-key questions, and
\* possibly a column that is no question
ExtraKey == <<"r", "o", "l", "l">>
MarkedValues == {"A", "B", EmptyVal}
Answers == {"A", EmptyVal}

\* a response that marks three questions, with the column that is no question
WideResponses ==
    { [k \in {q1, q2, q3, ExtraKey} |-> IF k = ExtraKey THEN "A" ELSE f[k]] :
          f \in [{q1, q2, q3} -> {"A", "B"}] }

Responses ==
    UNION { [ks -> MarkedValues] : ks \in SUBSET {q1, q2} }
    \cup UNION { { [k \in ks \cup {ExtraKey} |->
                       IF k = ExtraKey THEN "A" ELSE f[k]] : f \in [ks -> MarkedValues] }
                 : ks \in SUBSET {q1, q2} }
    \cup WideResponses

\* validate_all reads the keys of a response only: one response for every
\* set of keys
KeyedResponses == { r \in Responses : \A k \in DOMAIN r : r[k] = "A" }

\* scoring reads the questions of the answer key only: the column that is no
\* question goes with the responses of KeyedResponses and of WideResponses
ScoredResponses ==
    { r \in Responses : ExtraKey \notin DOMAIN r } \cup KeyedResponses
    \cup WideResponses

\* ------------------------------------------------------------------ state
VARIABLES
    raw,                     \* the evaluation json and the template's empty value
    phase,                   \* "new", "ready" (constructed) or "failed"
    should_explain_scoring,  \* EvaluationConfig fields
    questions_in_order,
    answers_in_order,
    marking_scheme,          \* the SectionMarkingScheme objects, in dict order
    explanation_table,       \* the rows of the rich table
    warnings,                \* what logger.warning was given, oldest first
    last,                    \* the last operation, its arguments and its result
    ops,                     \* operations run on the constructed object
    history                  \* every verdict committed to a section of the
                             \* object (update_streaks_for_verdict), by
                             \* match_answer or by a caller: section, verdict

VARIABLES p_op, p_in, p_out  \* a call of the range parser on its own

mvars == <<raw, phase, should_explain_scoring, questions_in_order,
           answers_in_order, marking_scheme, explanation_table, warnings,
           last, ops, history>>

pvars == <<p_op, p_in, p_out>>

vars == <<mvars, pvars>>

NoResponse == [k \in {} |-> ""]

\* an entry of history: the verdict committed to section at, by a match_answer
\* call that scored a question or by a caller on its own
Scored(at, verdict, by) == [section |-> at, verdict |-> verdict, by |-> by]

Last(op, error, response, score, calls, pre, missing) ==
    [op |-> op, error |-> error, response |-> response, score |-> score,
     calls |-> calls, pre |-> pre, missing |-> missing]

NoRaw ==
    [should_explain_scoring |-> FALSE, questions_in_order |-> <<>>,
     answers_in_order |-> <<>>, marking_scheme |-> <<>>, empty_val |-> EmptyVal]

Blank ==
    /\ phase = "new"
    /\ should_explain_scoring = FALSE
    /\ questions_in_order = <<>>
    /\ answers_in_order = <<>>
    /\ marking_scheme = <<>>
    /\ explanation_table = <<>>
    /\ warnings = <<>>
    /\ last = Last("none", "none", NoResponse, 0, <<>>, <<>>, <<>>)
    /\ ops = 0
    /\ history = <<>>

ParserIdle ==
    /\ p_op = "none"
    /\ p_in = <<>>
    /\ p_out = Parsed("none", <<>>)

Init ==
    /\ raw \in RawEvaluations
    /\ Blank
    /\ ParserIdle

\* the EvaluationConfig as the functions above take it
Config ==
    [should_explain_scoring |-> should_explain_scoring,
     questions_in_order |-> questions_in_order,
     answers_in_order |-> answers_in_order,
     marking_scheme |-> marking_scheme,
     explanation_table |-> explanation_table]

\* EvaluationConfig(...) is constructed from the evaluation json
Construct ==
    /\ phase = "new"
    /\ \E built \in {EvaluationConfig(raw, raw.empty_val)} :
           /\ phase' = IF built.error = "none" THEN "ready" ELSE "failed"
           /\ should_explain_scoring' = raw.should_explain_scoring
           /\ questions_in_order' = built.questions_in_order
           /\ answers_in_order' = IF built.error = "none"
                                  THEN raw.answers_in_order ELSE <<>>
           /\ marking_scheme' = built.marking_scheme
           /\ warnings' = warnings \o built.warnings
           /\ last' = Last("construct", built.error, NoResponse, 0, <<>>, <<>>, <<>>)
    /\ explanation_table' = IF raw.should_explain_scoring
                            THEN prepare_explanation_table
                            ELSE explanation_table
    /\ UNCHANGED <<raw, ops, history, pvars>>

\* evaluation_config.validate_all(omr_response), called on its own
ValidateAll(omr_response) ==
    /\ phase = "ready"
    /\ ops < MaxOps
    /\ \E checked \in {validate_all(questions_in_order, answers_in_order,
                                    marking_scheme, omr_response)} :
           last' = Last("validate_all", checked.error, omr_response, 0, <<>>,
                        marking_scheme, checked.missing)
    /\ ops' = ops + 1
    /\ UNCHANGED <<raw, phase, should_explain_scoring, questions_in_order,
                   answers_in_order, marking_scheme, explanation_table,
                   warnings, history, pvars>>

\* marking_scheme[key].match_answer(marked_answer, correct_answer), on its own
MatchAnswer(at, marked_answer, correct_answer) ==
    /\ phase = "ready"
    /\ ops < MaxOps
    /\ at \in 1..Len(marking_scheme)
    /\ \E matched \in {match_answer(marking_scheme[at], marked_answer,
                                    correct_answer)} :
           /\ marking_scheme' = [marking_scheme EXCEPT ![at] = matched.section]
           /\ last' = Last("match_answer", "none", NoResponse, 0,
                           <<[section  |-> at,
                              question |-> <<>>,
                              marked   |-> marked_answer,
                              correct  |-> correct_answer,
                              delta    |-> matched.delta,
                              verdict  |-> matched.verdict]>>,
                           marking_scheme, <<>>)
           /\ history' = Append(history, Scored(at, matched.verdict, "match_answer"))
    /\ ops' = ops + 1
    /\ UNCHANGED <<raw, phase, should_explain_scoring, questions_in_order,
                   answers_in_order, explanation_table, warnings, pvars>>

\* evaluate_concatenated_response(concatenated_response, evaluation_config)
Evaluate(concatenated_response) ==
    /\ phase = "ready"
    /\ ops < MaxOps
    /\ \E done \in {evaluate_concatenated_response(concatenated_response,
                                                   Config)} :
           /\ marking_scheme' = done.marking_scheme
           /\ explanation_table' = done.explanation_table
           /\ last' = Last("evaluate", done.error, concatenated_response,
                           done.score, done.calls, marking_scheme, <<>>)
           /\ history' = history \o [i \in 1..Len(done.calls) |->
                                         Scored(done.calls[i].section,
                                                done.calls[i].verdict,
                                                "match_answer")]
    /\ ops' = ops + 1
    /\ UNCHANGED <<raw, phase, should_explain_scoring, questions_in_order,
                   answers_in_order, warnings, pvars>>

\* evaluation_config.prepare_explanation_table(), called on its own
PrepareExplanationTable ==
    /\ phase = "ready"
    /\ ops < MaxOps
    /\ explanation_table' = prepare_explanation_table
    /\ last' = Last("prepare_explanation_table", "none", NoResponse, 0, <<>>,
                    marking_scheme, <<>>)
    /\ ops' = ops + 1
    /\ UNCHANGED <<raw, phase, should_explain_scoring, questions_in_order,
                   answers_in_order, marking_scheme, warnings, history, pvars>>

\* marking_scheme[key].update_streaks_for_verdict(question_verdict), on its own
UpdateStreaksForVerdict(at, question_verdict) ==
    /\ phase = "ready"
    /\ ops < MaxOps
    /\ at \in 1..Len(marking_scheme)
    /\ marking_scheme' =
           [marking_scheme EXCEPT
               ![at].streaks = update_streaks_for_verdict(@, question_verdict)]
    /\ history' = Append(history, Scored(at, question_verdict, "caller"))
    /\ last' = Last("update_streaks_for_verdict", "none", NoResponse, 0, <<>>,
                    marking_scheme, <<>>)
    /\ ops' = ops + 1
    /\ UNCHANGED <<raw, phase, should_explain_scoring, questions_in_order,
                   answers_in_order, explanation_table, warnings, pvars>>

\* evaluation_config.conditionally_add_explanation(...), called on its own for
\* question q1 marked as the key says, with the delta that the rule of section
\* at holds for the verdict and the score given
ConditionallyAddExplanation(at, question_verdict, score) ==
    /\ phase = "ready"
    /\ ops < MaxOps
    /\ at \in 1..Len(marking_scheme)
    /\ \E explained \in {conditionally_add_explanation(
                              should_explain_scoring, explanation_table, "A",
                              marking_scheme[at].marking[question_verdict], "A",
                              marking_scheme[at], question_verdict, q1, score)} :
           /\ explanation_table' = explained.table
           /\ last' = Last("conditionally_add_explanation", explained.error,
                           NoResponse, score, <<>>, marking_scheme, <<>>)
    /\ ops' = ops + 1
    /\ UNCHANGED <<raw, phase, should_explain_scoring, questions_in_order,
                   answers_in_order, marking_scheme, warnings, history, pvars>>

\* the scores handed to conditionally_add_explanation: 0.0 and 1.0
GivenScores == {0, 4}

\* the last operation, with the value it returned
Returning(op, error, pre, returned) ==
    [op |-> op, error |-> error, response |-> NoResponse, score |-> 0,
     calls |-> <<>>, pre |-> pre, missing |-> <<>>, returned |-> returned]

\* marking_scheme[key].parse_scheme_marking(marking), called on its own: the
\* parsed marking is returned and not kept, the warning is logged
ParseSchemeMarking(at, marking) ==
    /\ phase = "ready"
    /\ ops < MaxOps
    /\ at \in 1..Len(marking_scheme)
    /\ \E parsed \in {parse_scheme_marking(marking_scheme[at].section_key,
                                            marking)} :
           /\ warnings' = warnings \o parsed.warnings
           /\ last' = Returning("parse_scheme_marking", "none", marking_scheme,
                                parsed.parsed_marking)
    /\ ops' = ops + 1
    /\ UNCHANGED <<raw, phase, should_explain_scoring, questions_in_order,
                   answers_in_order, marking_scheme, explanation_table,
                   history, pvars>>

\* the markings handed to parse_scheme_marking: a positive incorrect delta as
\* a string and as a number
GivenMarkings == {PositiveStrMarking, PositiveNumMarking}

\* SectionMarkingScheme(section_key, section_scheme, empty_val), constructed
\* on its own: the new object is no section of the EvaluationConfig
NewSectionMarkingScheme(section_scheme) ==
    /\ phase = "ready"
    /\ ops < MaxOps
    /\ \E built \in {SectionMarkingScheme(section_scheme.section_key,
                                           section_scheme, raw.empty_val)} :
           /\ warnings' = warnings \o built.warnings
           /\ last' = Returning("SectionMarkingScheme", built.error,
                                marking_scheme,
                                IF built.error = "none"
                                THEN <<built.section>> ELSE <<>>)
    /\ ops' = ops + 1
    /\ UNCHANGED <<raw, phase, should_explain_scoring, questions_in_order,
                   answers_in_order, marking_scheme, explanation_table,
                   history, pvars>>

S9 == <<"S", "9">>

\* the sections constructed on their own: one that warns, a bonus section
\* and one whose range is invalid
GivenSections ==
    { Sec(S9, <<q1>>, PositiveStrMarking),
      Sec(BONUS1, <<q1>>, PositiveStrMarking),
      Sec(S9, <<q2to1>>, PositiveStrMarking) }

\* the warning of evaluate_correctness, which names no section
DuplicateFileIds == [section_key |-> <<>>, verdict |-> "file_id", warns |-> TRUE]

\* what evaluate_correctness has logged as a warning and the exception it
\* ends in, if any
Checked(error, logged) == [error |-> error, warnings |-> logged]

\* evaluation.py:327-348, for a file that has been read: x_df is built from
\* OUTPUT_SET (ValueError when its rows are not as wide as test_cols); when
\* every file id of x_df is in the file, x_df == y_df compares the two frames
\* (ValueError when the ids come in another order than in the file) and the
\* accuracy is logged; otherwise two errors are logged and the call returns.
compare_with_outputs(output_set, logged) ==
    IF output_set = "misshaped" THEN Checked("ValueError", logged)
    ELSE IF output_set = "unknown_ids" THEN Checked("none", logged)
    ELSE IF output_set = "reordered" THEN Checked("ValueError", logged)
    ELSE Checked("none", logged)

\* evaluate_correctness(outputs_namespace): test_file tells whether
\* inputs/OMRDataset.csv is absent, lacks a column of test_cols or has them
\* all; output_set tells how OUTPUT_SET stands to the file.  np.any is given
\* the bound method y_df.index.duplicated, not its result, so the warning is
\* logged for every file that is read.
evaluate_correctness(test_file, output_set) ==
    IF test_file = "absent" THEN Checked("none", <<>>)
    ELSE IF test_file = "lacks_column" THEN Checked("KeyError", <<>>)
    ELSE compare_with_outputs(output_set, <<DuplicateFileIds>>)

EvaluateCorrectness(test_file, output_set) ==
    /\ phase = "ready"
    /\ ops < MaxOps
    /\ \E done \in {evaluate_correctness(test_file, output_set)} :
           /\ warnings' = warnings \o done.warnings
           /\ last' = Returning("evaluate_correctness", done.error,
                                marking_scheme, <<>>)
    /\ ops' = ops + 1
    /\ UNCHANGED <<raw, phase, should_explain_scoring, questions_in_order,
                   answers_in_order, marking_scheme, explanation_table,
                   history, pvars>>

TestFiles == {"absent", "lacks_column", "readable"}

\* OUTPUT_SET: rows of another width than test_cols, file ids the file does
\* not have, the file's ids in another order, the file's ids in its order
OutputSets == {"misshaped", "unknown_ids", "reordered", "matching"}

Next ==
    \/ Construct
    \/ \E r \in KeyedResponses : ValidateAll(r)
    \/ \E at \in 1..3, m \in MarkedValues, c \in Answers : MatchAnswer(at, m, c)
    \/ \E r \in ScoredResponses : Evaluate(r)
    \/ PrepareExplanationTable
    \/ \E at \in 1..3 : \E v \in {"correct", "incorrect", "unmarked"} :
          UpdateStreaksForVerdict(at, v)
    \/ \E at \in 1..3 : \E v \in {"correct", "incorrect"}, score \in GivenScores :
          ConditionallyAddExplanation(at, v, score)
    \/ \E at \in 1..3, marking \in GivenMarkings : ParseSchemeMarking(at, marking)
    \/ \E section_scheme \in GivenSections :
          NewSectionMarkingScheme(section_scheme)
    \/ \E test_file \in TestFiles, output_set \in OutputSets :
          EvaluateCorrectness(test_file, output_set)

Spec == Init /\ [][Next]_vars

\* ------------------------------------------------ the range parser, alone
ParseInit ==
    /\ raw = NoRaw
    /\ Blank
    /\ p_op = "none"
    /\ p_in \in {<<t>> : t \in AllTokens} \cup TokenLists
    /\ p_out = Parsed("none", <<>>)

ParseQuestionString ==
    /\ p_op = "none"
    /\ Len(p_in) = 1
    /\ p_op' = "parse_question_string"
    /\ p_out' = parse_question_string(p_in[1])
    /\ UNCHANGED <<p_in, mvars>>

ParseQuestions ==
    /\ p_op = "none"
    /\ p_in \in TokenLists
    /\ p_op' = "parse_questions"
    /\ p_out' = parse_questions(S1, p_in)
    /\ UNCHANGED <<p_in, mvars>>

ParseNext == ParseQuestionString \/ ParseQuestions

SpecParse == ParseInit /\ [][ParseNext]_vars

\* ============================================================== properties
VerdictTypes == {"correct", "incorrect", "unmarked"}

ValidationErrors ==
    {"UnequalLengths", "SectionOverlap", "MissingMarkingScheme",
     "MissingAnswerKey", "MissingOMRResponse"}

ExplicitSections ==
    {i \in 1..Len(marking_scheme) :
        marking_scheme[i].section_key # DEFAULT_SECTION_KEY}

AnswerKeyIds == SeqSet(questions_in_order)

SectionsDisjoint ==
    \A i, j \in ExplicitSections :
        i # j => SeqSet(marking_scheme[i].questions)
                 \cap SeqSet(marking_scheme[j].questions) = {}

SectionsUnion ==
    UNION {SeqSet(marking_scheme[i].questions) : i \in ExplicitSections}

\* the answer key and the marking scheme agree with each other
Consistent ==
    /\ Len(questions_in_order) = Len(answers_in_order)
    /\ SectionsDisjoint
    /\ SectionsUnion = AnswerKeyIds

\* the sum, over the answer key from index i on, of the delta that the section
\* gives the verdict of each question
RECURSIVE RuleSum(_, _, _)
RuleSum(section, response, i) ==
    IF i > Len(questions_in_order) THEN 0
    ELSE section.marking[get_question_verdict(section,
                                              response[questions_in_order[i]],
                                              answers_in_order[i])].val
         + RuleSum(section, response, i + 1)

DefaultOnly ==
    /\ Len(marking_scheme) = 1
    /\ marking_scheme[1].section_key = DEFAULT_SECTION_KEY
    /\ \A v \in VerdictTypes : marking_scheme[1].marking[v].kind = "num"

\* C1: with a marking scheme that is only the default section with constant
\* marks, evaluate_concatenated_response on a response that holds a marked
\* value for every answer-key question passes validate_all and returns the sum
\* of the default rule's deltas over the answer key.
C1_DefaultOnlyScores ==
    ( /\ last.op = "evaluate"
      /\ DefaultOnly
      /\ Len(questions_in_order) = Len(answers_in_order)
      /\ AnswerKeyIds \subseteq DOMAIN last.response )
    => /\ last.error = "none"
       /\ last.score = RuleSum(marking_scheme[1], last.response, 1)

\* C2: with a consistent answer key and marking scheme, validate_all raises
\* the response-coverage error exactly when some answer-key question id is no
\* key of the response; it returns on an exact match and on a strict superset.
C2_ResponseCoverage ==
    (last.op = "validate_all" /\ Consistent)
    => /\ last.error = "MissingOMRResponse"
            <=> ~(AnswerKeyIds \subseteq DOMAIN last.response)
       /\ AnswerKeyIds \subseteq DOMAIN last.response => last.error = "none"

\* the rule that the evaluation json gives section at for a verdict
RawRule(at, verdict) == raw.marking_scheme[at].marking[verdict]

\* C3: when the rule of the resolved verdict is a schedule of length n >= 1,
\* match_answer returns schedule[min(k, n-1)], k being the verdict's streak
\* counter before the call.
C3_ScheduleDelta ==
    \A c \in SeqSet(last.calls) :
        ( /\ last.op = "match_answer"
          /\ RawRule(c.section, c.verdict).form = "list"
          /\ Len(RawRule(c.section, c.verdict).items) >= 1 )
        => LET schedule == RawRule(c.section, c.verdict).items
               k == last.pre[c.section].streaks[c.verdict]
               entry == schedule[Min2(k, Len(schedule) - 1) + 1]
           IN  c.delta = Val("num", FloatOf(entry.num, entry.den), <<>>)

CallsOn(at) == SelectSeq(last.calls, LAMBDA c : c.section = at)

\* C4: a match_answer call that resolves verdict v leaves the section's
\* counter for v one above its value before the call and the two other
\* counters at 0; in every state at most one counter of a section is non-zero.
C4_StreakCommit ==
    /\ \A at \in 1..Len(marking_scheme) :
          Cardinality({v \in VerdictTypes :
                          marking_scheme[at].streaks[v] # 0}) <= 1
    /\ last.op \in {"match_answer", "evaluate"}
       => \A at \in 1..Len(marking_scheme) :
             Len(CallsOn(at)) = 1
             => \A v \in VerdictTypes :
                   marking_scheme[at].streaks[v] =
                       IF v = CallsOn(at)[1].verdict
                       THEN last.pre[at].streaks[v] + 1
                       ELSE 0

C4_Witness ==
    /\ last.op = "match_answer"
    /\ \E v \in VerdictTypes :
          /\ v # last.calls[1].verdict
          /\ last.pre[last.calls[1].section].streaks[v] > 0
          /\ marking_scheme[last.calls[1].section].streaks[v] = 0

\* C5: whenever validate_all returns, the explicit sections' id sets are
\* pairwise disjoint and their union is the answer-key id set; when two
\* explicit sections share an id, validate_all raises.
C5_SectionsPartitionKey ==
    /\ ( /\ last.op \in {"validate_all", "evaluate"}
         /\ last.error \notin ValidationErrors )
       => SectionsDisjoint /\ SectionsUnion = AnswerKeyIds
    /\ (last.op = "validate_all" /\ ~SectionsDisjoint) => last.error # "none"

C5_Witness ==
    /\ last.op = "validate_all"
    /\ last.error = "none"
    /\ Cardinality(ExplicitSections) = 2
    /\ Cardinality(AnswerKeyIds) = 2

\* C6: every failure of evaluate_concatenated_response comes before scoring:
\* when the call ends in an error, no match_answer was executed in it and
\* every section's streak counters are as they were before the call.
C6_FailBeforeScoring ==
    (last.op = "evaluate" /\ last.error # "none")
    => last.calls = <<>> /\ marking_scheme = last.pre

\* ---- the range parser
HasDot(t) == \E k \in 1..Len(t) : t[k] = "."

AllOf(t, from, to, cls) == \A k \in from..to : CharClass(t[k]) = cls

\* t is prefix, start, two or three dots, end: a is the last position of the
\* prefix, b of start, c of the dots
SplitsAsRange(t, a, b, c) ==
    /\ 1 <= a /\ a < b /\ b < c /\ c < Len(t)
    /\ c - b \in {2, 3}
    /\ AllOf(t, 1, a, "other")
    /\ AllOf(t, a + 1, b, "digit")
    /\ AllOf(t, b + 1, c, "dot")
    /\ AllOf(t, c + 1, Len(t), "digit")

\* C7: parse_question_string on a range token prefix start .. end (two or
\* three dots) with start < end returns exactly prefix+n for n = start..end in
\* ascending order; with start >= end it fails with the range-definition
\* error; a token without a dot comes back as the one-element list.
C7_RangeExpansion ==
    p_op = "parse_question_string"
    => /\ \A a, b, c \in 1..Len(p_in[1]) :
             SplitsAsRange(p_in[1], a, b, c)
             => LET prefix == SubSeq(p_in[1], 1, a)
                    start  == IntOf(SubSeq(p_in[1], a + 1, b))
                    end    == IntOf(SubSeq(p_in[1], c + 1, Len(p_in[1])))
                IN  IF start < end
                    THEN /\ p_out.error = "none"
                         /\ Len(p_out.ids) = end - start + 1
                         /\ \A k \in 1..Len(p_out.ids) :
                               p_out.ids[k] = prefix \o StrOf(start + k - 1)
                    ELSE p_out.error = "InvalidRange"
       /\ ~HasDot(p_in[1]) => p_out = Parsed("none", <<p_in[1]>>)

C7_Witness ==
    /\ p_op = "parse_question_string"
    /\ p_in = <<q1to3>>
    /\ p_out = Parsed("none", <<q1, q2, q3>>)

Distinct(ids) == \A i, j \in 1..Len(ids) : i # j => ids[i] # ids[j]

\* C8: parse_questions fails with the question-overlap error whenever two
\* tokens of the call expand to id sets that intersect; whenever it returns,
\* the flattened sequence holds no id twice.
C8_OverlapRejected ==
    p_op = "parse_questions"
    => /\ ( /\ \A k \in 1..Len(p_in) :
                  parse_question_string(p_in[k]).error = "none"
            /\ \E i, j \in 1..Len(p_in) :
                  /\ i # j
                  /\ SeqSet(parse_question_string(p_in[i]).ids)
                     \cap SeqSet(parse_question_string(p_in[j]).ids) # {} )
          => p_out.error = "QuestionOverlap"
       /\ p_out.error = "none" => Distinct(p_out.ids)

\* ---- two questions scored one after the other on one scheme instance
\* score = 0.0, then score += delta for each delta: the total, or the
\* TypeError of adding a delta that is no number
Accumulated(d1, d2) ==
    IF d1.kind = "num" /\ d2.kind = "num"
    THEN [error |-> "none", score |-> d1.val + d2.val]
    ELSE [error |-> "TypeError", score |-> 0]

\* match_answer for x and then for y on a section
TwoCalls(section, x, y) ==
    [first  |-> match_answer(section, x.marked, x.correct).delta,
     second |-> match_answer(match_answer(section, x.marked, x.correct).section,
                             y.marked, y.correct).delta,
     streaks |-> match_answer(match_answer(section, x.marked, x.correct).section,
                              y.marked, y.correct).section.streaks]

\* the questions that are answered incorrectly: marked, and not as the key says
IncorrectlyAnswered ==
    {x \in [marked : MarkedValues, correct : Answers] :
        x.marked # EmptyVal /\ x.marked # x.correct}

NonConstantSchedule(literal) ==
    /\ literal.form = "list"
    /\ \E i, j \in 1..Len(literal.items) : literal.items[i] # literal.items[j]

\* the call that has just been made, as a question
LastQuestion == [marked |-> last.calls[1].marked, correct |-> last.calls[1].correct]

\* C9 as stated: from one streak state, under a non-constant incorrect
\* schedule, scoring two incorrectly answered questions A then B gives another
\* accumulated delta than scoring them B then A.
C9_OrderChangesTotal ==
    ( /\ last.op = "match_answer"
      /\ LastQuestion \in IncorrectlyAnswered
      /\ NonConstantSchedule(RawRule(last.calls[1].section, "incorrect")) )
    => \A B \in IncorrectlyAnswered \ {LastQuestion} :
          LET before == last.pre[last.calls[1].section]
              ab == TwoCalls(before, LastQuestion, B)
              ba == TwoCalls(before, B, LastQuestion)
          IN  Accumulated(ab.first, ab.second) # Accumulated(ba.first, ba.second)

\* C9 amended: from one streak state, scoring two incorrectly answered
\* questions A then B returns the same deltas call by call, the same
\* accumulated delta and the same streak counters as scoring them B then A.
C9_OrderKeepsTotal ==
    ( /\ last.op = "match_answer"
      /\ LastQuestion \in IncorrectlyAnswered )
    => \A B \in IncorrectlyAnswered \ {LastQuestion} :
          LET before == last.pre[last.calls[1].section]
              ab == TwoCalls(before, LastQuestion, B)
              ba == TwoCalls(before, B, LastQuestion)
          IN  /\ ab.first = last.calls[1].delta
              /\ ab.first = ba.first
              /\ ab.second = ba.second
              /\ Accumulated(ab.first, ab.second) = Accumulated(ba.first, ba.second)
              /\ ab.streaks = ba.streaks
              /\ ab.streaks.incorrect = before.streaks.incorrect + 2

C9_Witness ==
    /\ last.op = "match_answer"
    /\ LastQuestion \in IncorrectlyAnswered
    /\ NonConstantSchedule(RawRule(last.calls[1].section, "incorrect"))
    /\ last.pre[last.calls[1].section].streaks.incorrect = 1

RECURSIVE DeltaSum(_, _)
DeltaSum(calls, i) ==
    IF i > Len(calls) THEN 0 ELSE calls[i].delta.val + DeltaSum(calls, i + 1)

\* C10: a successful evaluate_concatenated_response calls match_answer once
\* per answer-key entry, in the declared order, with the response's marked
\* value and the parallel-indexed correct answer, and returns 0 plus the sum
\* of the deltas those calls returned.
C10_OneCallPerEntry ==
    (last.op = "evaluate" /\ last.error = "none")
    => /\ Len(last.calls) = Len(questions_in_order)
       /\ \A i \in 1..Len(last.calls) :
             /\ last.calls[i].question = questions_in_order[i]
             /\ last.calls[i].marked = last.response[questions_in_order[i]]
             /\ last.calls[i].correct = answers_in_order[i]
             /\ last.calls[i].delta.kind = "num"
       /\ last.score = 0 + DeltaSum(last.calls, 1)

C10_Witness ==
    /\ last.op = "evaluate"
    /\ last.error = "none"
    /\ Len(last.calls) = 2
    /\ questions_in_order = <<q2, q1>>
    /\ last.calls[1].delta.val > 0
    /\ last.calls[2].delta.val < 0

\* ---- the lookup of the scheme that scores a question
\* the section that evaluation.py:272-285 is meant to give question q: the
\* explicit section that lists it, else the default section (0: none)
SchemeFor(q) ==
    IF QUESTION_WISE_SCHEMES(marking_scheme, q) # 0
    THEN QUESTION_WISE_SCHEMES(marking_scheme, q)
    ELSE DefaultIndex(marking_scheme)

Unmapped == {q \in AnswerKeyIds : SchemeFor(q) = 0}

\* C11: in evaluate_concatenated_response every question is scored by the
\* explicit section that lists it, else by the default section; once
\* validate_all has passed, the call ends in the configuration error exactly
\* when some answer-key question has neither, so a scheme without a default
\* section whose explicit sections cover the answer key is scored normally.
C11_SchemeLookup ==
    ( /\ last.op = "evaluate"
      /\ last.error \notin ValidationErrors
      /\ AnswerKeyIds \subseteq DOMAIN last.response )
    => /\ \A c \in SeqSet(last.calls) : c.section = SchemeFor(c.question)
       /\ last.error = "UnboundLocalError" <=> Unmapped # {}
       /\ ( /\ Unmapped = {}
            /\ \A i \in 1..Len(marking_scheme), v \in VerdictTypes :
                  marking_scheme[i].marking[v].kind = "num" )
          => /\ last.error = "none"
             /\ Len(last.calls) = Len(questions_in_order)

\* ---- streak counters over the calls of one operation
\* section at's counter for verdict v after the first i calls of the
\* operation, counted on from the counters the operation found (pre)
RECURSIVE StreakAfter(_, _, _, _, _)
StreakAfter(pre, calls, i, at, v) ==
    IF i = 0 THEN pre[at].streaks[v]
    ELSE IF calls[i].section # at THEN StreakAfter(pre, calls, i - 1, at, v)
    ELSE IF calls[i].verdict = v THEN StreakAfter(pre, calls, i - 1, at, v) + 1
    ELSE 0

\* the delta that the rule of the evaluation json gives a verdict whose
\* counter is k: the constant, or entry min(k, n-1) of the schedule
RuleDelta(literal, k) ==
    IF literal.form = "list"
    THEN FloatOf(literal.items[Min2(k, Len(literal.items) - 1) + 1].num,
                 literal.items[Min2(k, Len(literal.items) - 1) + 1].den)
    ELSE FloatOf(literal.num, literal.den)

\* the score of a pass whose calls start from the counters in pre
RECURSIVE PersistedScore(_, _, _)
PersistedScore(pre, calls, i) ==
    IF i = 0 THEN 0
    ELSE PersistedScore(pre, calls, i - 1)
         + RuleDelta(RawRule(calls[i].section, calls[i].verdict),
                     StreakAfter(pre, calls, i - 1, calls[i].section,
                                 calls[i].verdict))

HasSchedule ==
    \E i \in 1..Len(marking_scheme), v \in VerdictTypes :
        RawRule(i, v).form = "list"

\* a pass that validate_all lets through and that finds every question in
\* the response and a scheme for it
Scorable ==
    /\ last.op = "evaluate"
    /\ last.error \notin ValidationErrors
    /\ AnswerKeyIds \subseteq DOMAIN last.response
    /\ DefaultIndex(marking_scheme) # 0

\* C12: streak counters are not reset between passes: a pass on a used
\* EvaluationConfig starts from the counters the operation before it left, its
\* counters end as those counted on over its calls, and its score is the sum
\* of the rules' deltas at the persisted counters, so that under a schedule
\* it is another score than the one of a fresh configuration.
C12_StreaksPersist ==
    Scorable
    => /\ last.error = "none"
       /\ Len(last.calls) = Len(questions_in_order)
       /\ \A at \in 1..Len(marking_scheme), v \in VerdictTypes :
             marking_scheme[at].streaks[v]
                 = StreakAfter(last.pre, last.calls, Len(last.calls), at, v)
       /\ last.score = PersistedScore(last.pre, last.calls, Len(last.calls))

\* ---- verdicts
\* C13: get_question_verdict returns unmarked when the marked value is the
\* empty value, also when the correct answer is the empty value too; otherwise
\* correct when the marked value equals the correct answer; otherwise
\* incorrect.  Every call returns one of the three.
C13_VerdictCases ==
    last.op \in {"match_answer", "evaluate"}
    => \A c \in SeqSet(last.calls) :
          /\ c.verdict \in VerdictTypes
          /\ c.marked = EmptyVal => c.verdict = "unmarked"
          /\ (c.marked # EmptyVal /\ c.marked = c.correct)
             => c.verdict = "correct"
          /\ (c.marked # EmptyVal /\ c.marked # c.correct)
             => c.verdict = "incorrect"

C13_Witness ==
    /\ last.op = "match_answer"
    /\ last.calls[1].marked = EmptyVal
    /\ last.calls[1].correct = EmptyVal
    /\ last.calls[1].verdict = "unmarked"

\* ---- validate_all: the answer key against the marking scheme
\* ids is the set S in ascending order, each id once
IsSortedIds(ids, S) ==
    /\ SeqSet(ids) = S
    /\ \A i, j \in 1..Len(ids) : i < j => StrLess(ids[i], ids[j])

\* the two outcomes of the comparison of evaluation.py:192-209
MismatchReported ==
    /\ ( /\ SectionsUnion \subseteq AnswerKeyIds
         /\ SectionsUnion # AnswerKeyIds )
       => /\ last.error = "MissingMarkingScheme"
          /\ IsSortedIds(last.missing, AnswerKeyIds \ SectionsUnion)
    /\ ~(SectionsUnion \subseteq AnswerKeyIds)
       => /\ last.error = "MissingAnswerKey"
          /\ IsSortedIds(last.missing, SectionsUnion \ AnswerKeyIds)

\* C14 as stated: validate_all fails with the missing-marking-scheme error
\* and the sorted ids of answer key minus scheme whenever the answer-key ids
\* strictly contain the explicit sections' ids, and with the
\* missing-answer-key error and the sorted ids of scheme minus answer key
\* whenever a section lists an id that is no answer-key id.
C14_MismatchErrors ==
    last.op = "validate_all" => MismatchReported

\* C14 amended: the same, for a call that has passed the length check and the
\* section-overlap check; the outcome does not depend on the response.
C14_MismatchAfterChecks ==
    ( /\ last.op = "validate_all"
      /\ Len(questions_in_order) = Len(answers_in_order)
      /\ SectionsDisjoint )
    => MismatchReported

C14_Witness ==
    /\ last.op = "validate_all"
    /\ questions_in_order = <<q2, q1>>
    /\ DOMAIN last.response = {q1}
    /\ last.error = "MissingMarkingScheme"
    /\ last.missing = <<q1, q2>>

\* ---- the explanation table
\* the row that the i-th call of a pass adds, read off the pass in done
RowOfCall(done, sections, i) ==
    [Question |-> done.calls[i].question,
     Marked   |-> done.calls[i].marked,
     Correct  |-> done.calls[i].correct,
     Verdict  |-> Title(done.calls[i].verdict),
     Delta    |-> done.calls[i].delta.val,
     Score    |-> DeltaSum(SubSeq(done.calls, 1, i), 1),
     Section  |-> sections[done.calls[i].section].section_key,
     Streak   |-> StreakAfter(done.pre, done.calls, i, done.calls[i].section,
                              done.calls[i].verdict)]

\* C15: with explanation enabled, a scoring pass that returns adds one row
\* per answer-key question, in answer-key order, after the rows that were
\* there; the row's Score is the sum of the deltas up to and including its
\* question, its Section the key of the scheme that scored the question, its
\* streak entry that scheme's counter for the verdict after the commit, at
\* least 1.  With explanation disabled there is no row.
C15_ExplanationRows ==
    [][ (last'.op = "evaluate" /\ last'.error = "none" /\ ops' # ops)
        => IF should_explain_scoring
           THEN /\ Len(explanation_table')
                      = Len(explanation_table) + Len(questions_in_order)
                /\ SubSeq(explanation_table', 1, Len(explanation_table))
                      = explanation_table
                /\ \A i \in 1..Len(questions_in_order) :
                      /\ last'.calls[i].question = questions_in_order[i]
                      /\ explanation_table'[Len(explanation_table) + i]
                            = RowOfCall(last', marking_scheme, i)
                      /\ explanation_table'[Len(explanation_table) + i].Streak
                            = marking_scheme'[last'.calls[i].section]
                                  .streaks[last'.calls[i].verdict]
                         \/ \E j \in (i + 1)..Len(last'.calls) :
                               last'.calls[j].section = last'.calls[i].section
                      /\ explanation_table'[Len(explanation_table) + i].Streak >= 1
           ELSE explanation_table' = <<>> /\ explanation_table = <<>> ]_vars

C15_Witness ==
    /\ last.op = "evaluate"
    /\ last.error = "none"
    /\ should_explain_scoring
    /\ Len(explanation_table) = 4
    /\ explanation_table[4].Question = q2
    /\ explanation_table[4].Score # explanation_table[4].Delta
    /\ explanation_table[4].Streak = 2
    /\ explanation_table[4].Section = S2

\* ---- the warning for positive marks on incorrect answers
\* the construction of section i has logged the warning
Warned(i) ==
    \E k \in 1..Len(warnings) :
        /\ warnings[k].section_key = raw.marking_scheme[i].section_key
        /\ warnings[k].verdict = "incorrect"

\* C16: a constructed SectionMarkingScheme has logged the warning exactly if
\* its incorrect delta is strictly positive and its key does not start with
\* the bonus prefix, whether the delta is given as a number, as a numeric
\* string or as an "a/b" string; the warning does not stop construction.
C16_PositiveIncorrectWarns ==
    phase = "ready" /\ ops = 0
    => \A i \in 1..Len(marking_scheme) :
          RawRule(i, "incorrect").form # "list"
          => ( Warned(i)
               <=> /\ RuleDelta(RawRule(i, "incorrect"), 0) > 0
                   /\ ~StartsWith(raw.marking_scheme[i].section_key,
                                  BONUS_SECTION_PREFIX) )

\* ---- the answer key
\* C17: whenever construction and validate_all have both succeeded, the
\* answer key's question ids are pairwise different and as many as the
\* answers; a pass over an answer key that names an id twice, or whose
\* answers are fewer or more than its questions, makes no match_answer call.
C17_UniqueAnswerKey ==
    /\ ( /\ last.op \in {"validate_all", "evaluate"}
         /\ last.error \notin ValidationErrors )
       => /\ Distinct(questions_in_order)
          /\ Len(questions_in_order) = Len(answers_in_order)
    /\ ( /\ last.op = "evaluate"
         /\ \/ ~Distinct(questions_in_order)
            \/ Len(questions_in_order) # Len(answers_in_order) )
       => last.calls = <<>>

\* ---- what the operations leave alone
\* section objects a and b differ in their streak counters at most
SameButStreaks(a, b) == a = [b EXCEPT !.streaks = a.streaks]

IsPrefix(s, t) == Len(s) <= Len(t) /\ SubSeq(t, 1, Len(s)) = s

\* C18: on a constructed EvaluationConfig no operation changes the answer
\* key's questions, the answers, a section's question list or a section's
\* marking rule; validate_all changes nothing; across successful and failing
\* calls only the streak counters change, and the rows of the explanation
\* table when explanation is enabled; validate_all, match_answer and a scoring
\* pass keep the rows they found.
C18_ConfigurationFrame ==
    [][ phase = "ready"
        => /\ phase' = "ready"
           /\ should_explain_scoring' = should_explain_scoring
           /\ questions_in_order' = questions_in_order
           /\ answers_in_order' = answers_in_order
           /\ Len(marking_scheme') = Len(marking_scheme)
           /\ \A i \in 1..Len(marking_scheme) :
                 SameButStreaks(marking_scheme'[i], marking_scheme[i])
           /\ last'.op \in {"validate_all", "match_answer", "evaluate"}
              => IsPrefix(explanation_table, explanation_table')
           /\ ~should_explain_scoring => explanation_table' = explanation_table
           /\ last'.op = "validate_all"
              => /\ marking_scheme' = marking_scheme
                 /\ explanation_table' = explanation_table ]_vars

C18_Witness ==
    /\ last.op = "evaluate"
    /\ last.error = "TypeError"
    /\ \E i \in 1..Len(marking_scheme) :
          /\ marking_scheme[i].marking.incorrect.kind = "map"
          /\ marking_scheme[i].marking = last.pre[i].marking
          /\ marking_scheme[i].streaks.incorrect
                = last.pre[i].streaks.incorrect + 1

\* ---- streaks as runs of verdicts
\* the verdicts committed to section at, oldest first
SectionHistory(at) == SelectSeq(history, LAMBDA h : h.section = at)

\* the length of the maximal run of equal verdicts that ends at entry n of h
RECURSIVE RunLength(_, _)
RunLength(h, n) ==
    IF n <= 1 THEN n
    ELSE IF h[n - 1].verdict = h[n].verdict THEN RunLength(h, n - 1) + 1
    ELSE 1

\* the verdicts of the questions that section at has scored, oldest first
QuestionHistory(at) ==
    SelectSeq(history, LAMBDA h : h.section = at /\ h.by = "match_answer")

\* C19 as stated: for each section that has scored a question, the counter of
\* the verdict of the question it scored last is the length of the maximal
\* run of consecutive same-verdict answers ending at that question, counted
\* over the questions that section has scored across all passes; the two
\* other counters are 0.
C19_StreakIsQuestionRun ==
    phase = "ready"
    => \A at \in 1..Len(marking_scheme), v \in VerdictTypes :
          QuestionHistory(at) # <<>>
          => marking_scheme[at].streaks[v]
                = IF QuestionHistory(at)[Len(QuestionHistory(at))].verdict = v
                  THEN RunLength(QuestionHistory(at), Len(QuestionHistory(at)))
                  ELSE 0

\* C19: for each section to which a verdict has been committed, by a
\* match_answer call that scored a question or by a caller's own
\* update_streaks_for_verdict call, the counter of the verdict committed last
\* is the length of the maximal run of consecutive equal verdicts ending
\* there, counted over that section's commits across all passes on the
\* instance; the two other counters are 0, and a section with no commit has
\* all three at 0.
C19_StreakIsRunLength ==
    phase = "ready"
    => \A at \in 1..Len(marking_scheme), v \in VerdictTypes :
          marking_scheme[at].streaks[v]
             = IF /\ SectionHistory(at) # <<>>
                  /\ SectionHistory(at)[Len(SectionHistory(at))].verdict = v
               THEN RunLength(SectionHistory(at), Len(SectionHistory(at)))
               ELSE 0

C19_Witness ==
    \E at \in 1..Len(marking_scheme) :
        /\ Len(SectionHistory(at)) = 4
        /\ SectionHistory(at)[2].verdict # SectionHistory(at)[3].verdict
        /\ SectionHistory(at)[3].verdict = SectionHistory(at)[4].verdict
        /\ marking_scheme[at].streaks[SectionHistory(at)[4].verdict] = 2

\* ---- streaks of different sections
\* C20: a match_answer call on one section leaves the three counters of every
\* other section as they were; after a scoring pass each section's counters
\* are those counted on over its own calls alone, so a streak of a section
\* goes on across the questions of other sections that lie between its own.
C20_StreaksPerSection ==
    last.op \in {"match_answer", "evaluate"}
    => \A at \in 1..Len(marking_scheme) :
          /\ CallsOn(at) = <<>>
             => marking_scheme[at].streaks = last.pre[at].streaks
          /\ \A v \in VerdictTypes :
                ( /\ CallsOn(at) # <<>>
                  /\ \A k \in 1..Len(CallsOn(at)) : CallsOn(at)[k].verdict = v )
                => marking_scheme[at].streaks[v]
                      = last.pre[at].streaks[v] + Len(CallsOn(at))

C20_Witness ==
    /\ last.op = "evaluate"
    /\ last.error = "none"
    /\ Len(last.calls) = 3
    /\ last.calls[1].section = last.calls[3].section
    /\ last.calls[2].section # last.calls[1].section
    /\ last.calls[1].verdict = last.calls[3].verdict
    /\ last.calls[2].verdict # last.calls[1].verdict
    /\ last.pre[last.calls[2].section].streaks[last.calls[2].verdict] = 1
    /\ marking_scheme[last.calls[2].section].streaks[last.calls[2].verdict] = 2
    /\ marking_scheme[last.calls[1].section].streaks[last.calls[1].verdict]
          = last.pre[last.calls[1].section].streaks[last.calls[1].verdict] + 2

\* ---- constant rules
\* the orders in which n answer-key entries can be visited
KeyOrders(n) ==
    {p \in [1..n -> 1..n] : \A i, j \in 1..n : i # j => p[i] # p[j]}

\* streak counters a section may hold: none, or a streak of one verdict
StreakStates ==
    {NoStreaks}
    \cup {[NoStreaks EXCEPT ![v] = k] : v \in VerdictTypes, k \in 1..2}

\* the sections with their counters set to streaks
WithStreaks(sections, streaks) ==
    [i \in DOMAIN sections |-> [sections[i] EXCEPT !.streaks = streaks]]

\* the configuration with the answer key in the order p, each question with
\* its answer, and with the given sections
Rearranged(p, sections) ==
    [Config EXCEPT
        !.questions_in_order = [i \in 1..Len(p) |-> questions_in_order[p[i]]],
        !.answers_in_order = [i \in 1..Len(p) |-> answers_in_order[p[i]]],
        !.marking_scheme = sections]

\* C21: when every rule of every section is a constant delta, the score that
\* a successful evaluate_concatenated_response returns is the score of the
\* same response on the same configuration with any streak counters to start
\* from and with the answer key in any order that keeps each question with
\* its answer.
C21_ConstantRulesIgnoreStreaks ==
    (last.op = "evaluate" /\ last.error = "none" /\ ~HasSchedule)
    => \A s \in StreakStates, p \in KeyOrders(Len(questions_in_order)) :
          \E again \in {evaluate_concatenated_response(
                             last.response,
                             Rearranged(p, WithStreaks(marking_scheme, s)))} :
              /\ again.error = "none"
              /\ again.score = last.score

C21_Witness ==
    /\ last.op = "evaluate"
    /\ last.error = "none"
    /\ ~HasSchedule
    /\ Len(last.calls) = 3
    /\ last.calls[1].delta # last.calls[2].delta
    /\ last.calls[1].verdict = last.calls[3].verdict
    /\ last.pre[last.calls[1].section].streaks[last.calls[1].verdict] = 2

\* ---- the explanation table over several passes
\* C22 as stated: the explanation table is empty when the EvaluationConfig
\* has been constructed and is never cleared: no operation takes a row away
\* or changes one, and with explanation enabled every scoring pass that
\* returns adds one row per answer-key question after the rows it found, the
\* first of which has the pass's first delta as its Score.
C22_TableNeverCleared ==
    /\ [](ops = 0 => explanation_table = <<>>)
    /\ [][ /\ IsPrefix(explanation_table, explanation_table')
           /\ ( /\ should_explain_scoring
                /\ last'.op = "evaluate"
                /\ last'.error = "none"
                /\ ops' # ops )
              => /\ Len(explanation_table')
                       = Len(explanation_table) + Len(questions_in_order)
                 /\ explanation_table'[Len(explanation_table) + 1].Score
                       = last'.calls[1].delta.val ]_vars

\* C22: the explanation table is empty when the EvaluationConfig has been
\* constructed; a further prepare_explanation_table call leaves it empty and
\* every other operation keeps the rows it found, unchanged and in front;
\* with explanation enabled every scoring pass that returns adds one row per
\* answer-key question after them, the first of which has the pass's first
\* delta as its Score and the last of which has the returned score, so that
\* n such passes in a row over q questions add n*q rows.
C22_TableAccumulates ==
    /\ [](ops = 0 => explanation_table = <<>>)
    /\ [](Len(explanation_table) <= ops * Len(questions_in_order))
    /\ [][ /\ IF last'.op = "prepare_explanation_table" /\ ops' # ops
              THEN explanation_table' = <<>>
              ELSE IsPrefix(explanation_table, explanation_table')
           /\ ( /\ should_explain_scoring
                /\ last'.op = "evaluate"
                /\ last'.error = "none"
                /\ ops' # ops )
              => /\ Len(explanation_table')
                       = Len(explanation_table) + Len(questions_in_order)
                 /\ explanation_table'[Len(explanation_table) + 1].Score
                       = last'.calls[1].delta.val
                 /\ explanation_table'[Len(explanation_table')].Score
                       = last'.score ]_vars

C22_Witness ==
    /\ last.op = "evaluate"
    /\ last.error = "none"
    /\ should_explain_scoring
    /\ ops = 2
    /\ Len(questions_in_order) = 2
    /\ Len(explanation_table) = 2 * 2
    /\ explanation_table[2].Score # 0
    /\ explanation_table[3].Score = explanation_table[3].Delta
    /\ explanation_table[3].Score # explanation_table[2].Score + explanation_table[3].Delta

====
